---------------------------- MODULE Spec2Model ----------------------------
(***************************************************************************)
(* GS1 GPC importers: gpc_import_xml.py (process_gpc_xml and its helpers)  *)
(* and gpc_import_json.py (import_gpc_to_sqlite), modelled as one state    *)
(* machine over an SQLite store.                                           *)
(*                                                                         *)
(* The store is the committed content of the database file; txRows is what *)
(* the open connection sees (committed rows plus the rows of its open      *)
(* transaction).  Python's sqlite3 module opens a transaction implicitly   *)
(* before the first INSERT only, so PRAGMA and CREATE TABLE statements     *)
(* take effect at once and are not undone by a rollback.                   *)
(*                                                                         *)
(* A behaviour follows one importer against one store: the two importers   *)
(* use disjoint table names (gpc_* against unprefixed names), so neither   *)
(* reads or writes the other's tables.                                     *)
(***************************************************************************)
EXTENDS Integers, Sequences, FiniteSets, TLC

VARIABLES
    importer,    \* "xml" | "json": the program that is run
    doc,         \* the source document handed to every run
    segment_filter, \* segment_filter argument of the JSON run (None: no filter)
    budget,      \* environment faults still allowed in this behaviour
    dbExists,    \* the database file (and its directory) exists
    dbTables,    \* names of the tables of the store
    dbRows,      \* committed rows per level
    conn,        \* "none" | "open" | "closed" | "lost" (opened, never closed)
    fkOn,        \* PRAGMA foreign_keys of the connection
    txRows,      \* rows per level as the connection sees them
    counters,    \* the counters dict of process_gpc_xml
    agenda,      \* elements still to visit, in visiting order
    pc,          \* position of the run
    run,         \* number of runs started
    outcome,     \* how the current run ended: "none" (running), "committed",
                 \* "aborted" (document unreadable or root tag unexpected),
                 \* "setup_failed", "rolledback", "keyerror", "sqlite_error"
    errs,        \* storage errors caught by the insert helpers in this run
    trace,       \* what the run did with each element, in order
    before,      \* the store when the current run started
    prev,        \* summary of the previous run
    summary,     \* the import summary emitted by the current run
    HAS_GPCC,    \* the gpcc library was imported when the module was loaded
    dlPc,        \* position of the current call of download_latest_gpc_xml
    dirMade,     \* the download directory exists
    latest,      \* the download file: "absent" | "partial" | "complete"
    success,     \* what _download_gpc_xml returned (FALSE until it returns)
    returned,    \* the path download_latest_gpc_xml returned (None: nothing yet)
    dlWhy,       \* what the current call met: "no_client" | "failure" |
                 \* "raised" | "success" ("none": nothing yet)
    calls        \* the paths returned by the earlier calls, in order

\* the state of the importers
xvars == <<importer, doc, segment_filter, budget, dbExists, dbTables, dbRows,
           conn, fkOn, txRows, counters, agenda, pc, run, outcome, errs, trace,
           before, prev, summary>>

\* the state of the download
dlvars == <<HAS_GPCC, dlPc, dirMade, latest, success, returned, dlWhy, calls>>

vars == <<xvars, dlvars>>

-----------------------------------------------------------------------------
(* Bounds of the model *)

\* import runs per behaviour
MaxRuns == 2
\* environment faults (storage errors, fatal errors) per behaviour
MaxFaults == 1
\* elements of the second branch of a generated XML document
MaxTail == 3
\* calls of download_latest_gpc_xml per behaviour
MaxCalls == 3

-----------------------------------------------------------------------------
(* Configuration constants of gpc_import_xml.py *)

TAG == <<"segment", "family", "class", "brick", "attType", "attValue">>
EXPECTED_ROOT_TAG == "schema"
XML_TABLES == <<"gpc_segments", "gpc_families", "gpc_classes", "gpc_bricks",
                "gpc_attribute_types", "gpc_attribute_values">>
JSON_TABLES == <<"segments", "families", "classes", "bricks">>

Levels == 1..Len(TAG)
JsonLevels == 1..Len(JSON_TABLES)

\* Python's None: an attribute or key that is absent
None == "None"
\* Python's `not x` for a string or None
Falsy(x) == x = None \/ x = ""

-----------------------------------------------------------------------------
(* XML documents: the elements below the root in document order, each with *)
(* its depth (1: child of the root), tag, and code / text attributes.      *)

Node(d, tg, c, t) == [depth |-> d, tag |-> tg, code |-> c, text |-> t]

Indices(nodes) == [j \in 1..Len(nodes) |-> j]

DepthOf(nodes, i) == IF i = 0 THEN 0 ELSE nodes[i].depth

\* j is a child element of i (0: the root)
IsChild(nodes, i, j) ==
    /\ j > i
    /\ nodes[j].depth = DepthOf(nodes, i) + 1
    /\ \A k \in (i+1)..j : nodes[k].depth > DepthOf(nodes, i)

\* j lies in the subtree below i
IsDescendant(nodes, i, j) ==
    /\ j > i
    /\ \A k \in (i+1)..j : nodes[k].depth > DepthOf(nodes, i)

\* elem.findall(tag): the direct children with that tag, in document order
FindAll(nodes, i, tag) ==
    SelectSeq(Indices(nodes), LAMBDA j : IsChild(nodes, i, j) /\ nodes[j].tag = tag)

\* root.findall(".//tag"): every element below the root with that tag
FindAllDeep(nodes, tag) ==
    SelectSeq(Indices(nodes), LAMBDA j : nodes[j].tag = tag)

\* the segment elements are searched anywhere below the root at once
SegmentElementsAnywhere(nodes) == FindAllDeep(nodes, TAG[1])

\* the segment elements the segment loop iterates over
SegmentElements(nodes) ==
    LET direct == FindAll(nodes, 0, TAG[1])
    IN  IF direct # <<>> THEN direct ELSE FindAllDeep(nodes, TAG[1])


-----------------------------------------------------------------------------
(* The documents the XML importer is run on.  A generated document is the  *)
(* full six-level chain (codes "a"), optionally with one attribute of one  *)
(* chain element absent or empty, followed by a second branch (texts "u")  *)
(* that starts at any level and may repeat the code "a".                   *)

CodeSet == {"a", "b"}

Chain(k) == [i \in 1..k |-> Node(i, TAG[i], "a", "t")]

TailNodes(e, len, c1, c2) ==
    [k \in 1..len |-> Node(e + k - 1, TAG[e + k - 1], IF k = 1 THEN c1 ELSE c2, "u")]

Tails ==
    {<<>>} \cup
    { TailNodes(q[1], q[2], q[3], q[4]) :
        q \in { p \in Levels \X (1..MaxTail) \X CodeSet \X CodeSet :
                  p[1] + p[2] - 1 <= Len(TAG) } }

\* <<level, attribute, value>>: level 0 leaves the chain as it is
Defects == {<<0, "code", "a">>} \cup (Levels \X {"code", "text"} \X {None, ""})

WithDefect(nodes, d) ==
    IF d[1] = 0 THEN nodes
    ELSE IF d[2] = "code" THEN [nodes EXCEPT ![d[1]].code = d[3]]
    ELSE [nodes EXCEPT ![d[1]].text = d[3]]

XmlDoc(st, rt, ns) == [status |-> st, root |-> rt, nodes |-> ns]

\* well-formed documents without a missing attribute
XmlCleanDocs ==
    { XmlDoc("ok", EXPECTED_ROOT_TAG, Chain(Len(TAG)) \o t) : t \in Tails }

\* documents whose segment elements are not all children of the root: a
\* segment beside a wrapper element that holds another segment; a segment
\* that holds another segment; a wrapper that holds a segment which holds a
\* family and another segment; a wrapper that holds two segments; a wrapper
\* without any segment
XmlNestedDocs ==
    LET Seg(d, c) == Node(d, TAG[1], c, "t")
        Fam(d, c) == Node(d, TAG[2], c, "t")
        Wrap(d) == Node(d, "group", None, None)
    IN  { XmlDoc("ok", EXPECTED_ROOT_TAG, ns) :
            ns \in { <<Seg(1, "a"), Fam(2, "a"), Wrap(1), Seg(2, "b"), Fam(3, "b")>>,
                     <<Seg(1, "a"), Fam(2, "a"), Seg(2, "b"), Fam(3, "b")>>,
                     <<Wrap(1), Seg(2, "a"), Fam(3, "a"), Seg(3, "b"), Fam(4, "b")>>,
                     <<Wrap(1), Seg(2, "a"), Fam(3, "a"), Seg(2, "b"), Fam(3, "b")>>,
                     <<Wrap(1), Fam(2, "a")>> } }

XmlDocs ==
    { XmlDoc("ok", EXPECTED_ROOT_TAG, WithDefect(Chain(Len(TAG)), d) \o t) :
        d \in Defects, t \in Tails }
    \cup { XmlDoc("ok", EXPECTED_ROOT_TAG, Chain(k)) : k \in 0..Len(TAG) }
    \cup XmlNestedDocs
    \cup { XmlDoc("ok", "other", Chain(Len(TAG))),
           XmlDoc("malformed", None, <<>>),
           XmlDoc("notfound", None, <<>>) }

-----------------------------------------------------------------------------
(* The store *)

Range(s) == {s[i] : i \in DOMAIN s}

Row(c, d, p) == [code |-> c, desc |-> d, parent |-> p]

EmptyRows == [L \in Levels |-> {}]

CodesOf(rows) == {r.code : r \in rows}

\* the inserted counters start at 1
InsertedFromOne ==
    [processed |-> [L \in Levels |-> 0], inserted |-> [L \in Levels |-> 1]]

\* the counters dict as process_gpc_xml initialises it
ZeroCounters == [processed |-> [L \in Levels |-> 0], inserted |-> [L \in Levels |-> 0]]

\* INSERT OR REPLACE in the place of INSERT OR IGNORE: a row with the code is
\* overwritten and counted as written
InsertOrReplace(rows, L, code, desc, parent, fk, ioError) ==
    IF ioError THEN [status |-> "error", rows |-> rows]
    ELSE IF fk /\ L > 1 /\ parent \notin CodesOf(rows[L - 1])
         THEN [status |-> "error", rows |-> rows]
    ELSE [status |-> "inserted",
          rows |-> [rows EXCEPT ![L] = {r \in @ : r.code # code}
                                        \cup {Row(code, desc, parent)}]]

\* INSERT OR IGNORE INTO <table of level L> VALUES (code, desc, parent) on a
\* connection: "error" stands for sqlite3.Error (ioError: one raised by the
\* environment; otherwise the FOREIGN KEY constraint failing), "ignored" for
\* rowcount 0, "inserted" for rowcount 1.
InsertOrIgnore(rows, L, code, desc, parent, fk, ioError) ==
    IF ioError THEN [status |-> "error", rows |-> rows]
    ELSE IF code \in CodesOf(rows[L]) THEN [status |-> "ignored", rows |-> rows]
    ELSE IF fk /\ L > 1 /\ parent \notin CodesOf(rows[L - 1])
         THEN [status |-> "error", rows |-> rows]
    ELSE [status |-> "inserted",
          rows |-> [rows EXCEPT ![L] = @ \cup {Row(code, desc, parent)}]]

Snapshot == [exists |-> dbExists, tables |-> dbTables, rows |-> dbRows]

LastRun ==
    [outcome |-> outcome, counters |-> counters, errs |-> errs, rows |-> dbRows,
     filter |-> segment_filter]

NoRun ==
    [outcome |-> "none", counters |-> ZeroCounters, errs |-> 0, rows |-> EmptyRows,
     filter |-> None]

-----------------------------------------------------------------------------
(* gpc_import_xml.py: the insert helpers.  Each returns the status of its  *)
(* INSERT OR IGNORE and the rows afterwards; the Python helper returns     *)
(* True exactly when the status is "inserted" and False otherwise, having  *)
(* caught and logged the sqlite3.Error of status "error".                  *)

insert_segment(rows, code, desc, fk, ioError) ==
    InsertOrIgnore(rows, 1, code, desc, None, fk, ioError)

\* the helper reports a row written also when the insert was ignored
insert_family_always_true(rows, code, desc, segment_code, fk, ioError) ==
    LET r == InsertOrIgnore(rows, 2, code, desc, segment_code, fk, ioError)
    IN  IF r.status = "ignored" THEN [r EXCEPT !.status = "inserted"] ELSE r

insert_family(rows, code, desc, segment_code, fk, ioError) ==
    InsertOrIgnore(rows, 2, code, desc, segment_code, fk, ioError)

insert_class(rows, code, desc, family_code, fk, ioError) ==
    InsertOrIgnore(rows, 3, code, desc, family_code, fk, ioError)

insert_brick(rows, code, desc, class_code, fk, ioError) ==
    InsertOrIgnore(rows, 4, code, desc, class_code, fk, ioError)

insert_attribute_type(rows, code, text, brick_code, fk, ioError) ==
    InsertOrIgnore(rows, 5, code, text, brick_code, fk, ioError)

insert_attribute_value(rows, code, text, att_type_code, fk, ioError) ==
    InsertOrIgnore(rows, 6, code, text, att_type_code, fk, ioError)

\* the helper the loop of level L calls
InsertAt(L, rows, code, desc, parent, fk, ioError) ==
    CASE L = 1 -> insert_segment(rows, code, desc, fk, ioError)
      [] L = 2 -> insert_family(rows, code, desc, parent, fk, ioError)
      [] L = 3 -> insert_class(rows, code, desc, parent, fk, ioError)
      [] L = 4 -> insert_brick(rows, code, desc, parent, fk, ioError)
      [] L = 5 -> insert_attribute_type(rows, code, desc, parent, fk, ioError)
      [] L = 6 -> insert_attribute_value(rows, code, desc, parent, fk, ioError)

-----------------------------------------------------------------------------
(* gpc_import_xml.py: process_gpc_xml *)

Entry(i, L, p) == [node |-> i, level |-> L, parent |-> p]

Event(i, L, p, res) == [node |-> i, level |-> L, parent |-> p, result |-> res]

\* the elements the loop nested in the loop of level L iterates over, for the
\* element i of level L with the given code
ChildEntries(nodes, i, L, code) ==
    IF L < Len(TAG)
    THEN LET kids == FindAll(nodes, i, TAG[L + 1])
         IN  [k \in 1..Len(kids) |-> Entry(kids[k], L + 1, code)]
    ELSE <<>>

\* the nested loop is entered only when the insert raised no error
AfterInsertIfOk(status, kids, rest) == IF status = "error" THEN rest ELSE kids \o rest

\* the nested loop is entered only when the insert wrote a new row
AfterInsertIfNew(status, kids, rest) ==
    IF status = "inserted" THEN kids \o rest ELSE rest

\* the elements to visit after the insert of an element returned with the
\* given status: its children first, whatever the status, then the rest
AfterInsert(status, kids, rest) == kids \o rest

\* only the text is looked at: an element without a code is not skipped
SkippedOnText(n) == Falsy(n.text)

\* the element is skipped: code or text missing or empty
Skipped(n) == Falsy(n.code) \/ Falsy(n.text)

\* entry of process_gpc_xml: counters zeroed, conn and cursor None
XmlStart ==
    /\ importer = "xml"
    /\ pc \in {"idle", "done"}
    /\ run < MaxRuns
    /\ run' = run + 1
    /\ pc' = "setup"
    /\ counters' = ZeroCounters
    /\ conn' = "none"
    /\ fkOn' = FALSE
    /\ txRows' = dbRows
    /\ agenda' = <<>>
    /\ outcome' = "none"
    /\ errs' = 0
    /\ trace' = <<>>
    /\ summary' = <<>>
    /\ before' = Snapshot
    /\ prev' = IF run = 0 THEN prev ELSE LastRun
    /\ UNCHANGED <<dlvars, importer, doc, segment_filter, budget, dbExists, dbTables, dbRows>>

\* setup_database succeeds: directory and file created, connection opened,
\* foreign keys switched on, the six tables created if absent
SetupDatabaseOk ==
    /\ pc = "setup"
    /\ dbExists' = TRUE
    /\ conn' = "open"
    /\ fkOn' = TRUE
    /\ dbTables' = dbTables \cup Range(XML_TABLES)
    /\ pc' = "parse"
    /\ UNCHANGED <<dlvars, importer, doc, segment_filter, budget, dbRows, txRows, counters,
                   agenda, run, outcome, errs, trace, before, prev, summary>>

\* setup_database fails and returns (None, None); process_gpc_xml returns.
\* Either nothing was opened (os.makedirs or sqlite3.connect raised), or the
\* connection was opened and a CREATE TABLE raised after k tables: that
\* connection is not handed to the caller.
SetupDatabaseFails ==
    /\ pc = "setup"
    /\ budget > 0
    /\ budget' = budget - 1
    /\ \/ UNCHANGED <<dbExists, dbTables, conn, fkOn>>
       \/ \E k \in 0..(Len(XML_TABLES) - 1) :
            /\ dbExists' = TRUE
            /\ conn' = "lost"
            /\ fkOn' = TRUE
            /\ dbTables' = dbTables \cup {XML_TABLES[j] : j \in 1..k}
    /\ outcome' = "setup_failed"
    /\ pc' = "finally"
    /\ UNCHANGED <<dlvars, importer, doc, segment_filter, dbRows, txRows, counters,
                   agenda, run, errs, trace, before, prev, summary>>

\* the root tag is not looked at
AnyRootAccepted(d) == d.status = "ok"

\* the document parses and has the expected root tag
RootAccepted(d) == d.status = "ok" /\ d.root = EXPECTED_ROOT_TAG

\* ET.parse and the root tag check: on ParseError, FileNotFoundError or a
\* root tag other than EXPECTED_ROOT_TAG the function returns
ParseXml ==
    /\ pc = "parse"
    /\ IF RootAccepted(doc)
       THEN /\ agenda' = LET segs == SegmentElements(doc.nodes)
                         IN  [k \in 1..Len(segs) |-> Entry(segs[k], 1, None)]
            /\ pc' = "traverse"
            /\ UNCHANGED outcome
       ELSE /\ outcome' = "aborted"
            /\ pc' = "finally"
            /\ UNCHANGED agenda
    /\ UNCHANGED <<dlvars, importer, doc, segment_filter, budget, dbExists, dbTables, dbRows,
                   conn, fkOn, txRows, counters, run, errs, trace, before, prev,
                   summary>>

\* one iteration of the loop of level L, up to the point where its nested
\* loop starts
Visit(L) ==
    /\ pc = "traverse"
    /\ agenda # <<>>
    /\ Head(agenda).level = L
    /\ LET e == Head(agenda)
           n == doc.nodes[e.node]
       IN  IF Skipped(n)
           THEN /\ counters' = [counters EXCEPT !.processed[L] = @ + 1]
                /\ agenda' = Tail(agenda)
                /\ trace' = Append(trace, Event(e.node, L, e.parent, "skipped"))
                /\ UNCHANGED <<txRows, errs, budget>>
           ELSE \E ioError \in BOOLEAN :
                /\ ioError => budget > 0
                /\ LET r == InsertAt(L, txRows, n.code, n.text, e.parent, fkOn, ioError)
                   IN  /\ txRows' = r.rows
                       /\ counters' =
                            [counters EXCEPT
                               !.processed[L] = @ + 1,
                               !.inserted[L] = IF r.status = "inserted" THEN @ + 1 ELSE @]
                       /\ errs' = IF r.status = "error" THEN errs + 1 ELSE errs
                       /\ trace' = Append(trace, Event(e.node, L, e.parent, r.status))
                       /\ agenda' = AfterInsert(r.status,
                                               ChildEntries(doc.nodes, e.node, L, n.code),
                                               Tail(agenda))
                /\ budget' = IF ioError THEN budget - 1 ELSE budget
    /\ UNCHANGED <<dlvars, importer, doc, segment_filter, dbExists, dbTables, dbRows, conn,
                   fkOn, pc, run, outcome, before, prev, summary>>

VisitSegment == Visit(1)
VisitFamily == Visit(2)
VisitClass == Visit(3)
VisitBrick == Visit(4)
VisitAttributeType == Visit(5)
VisitAttributeValue == Visit(6)

\* conn.commit() after the segment loop
XmlCommit ==
    /\ pc = "traverse"
    /\ agenda = <<>>
    /\ dbRows' = txRows
    /\ outcome' = "committed"
    /\ pc' = "finally"
    /\ UNCHANGED <<dlvars, importer, doc, segment_filter, budget, dbExists, dbTables, conn,
                   fkOn, txRows, counters, agenda, run, errs, trace, before, prev,
                   summary>>

\* except Exception: an unexpected error while parsing, traversing or
\* committing; conn.rollback()
XmlUnexpectedError ==
    /\ pc \in {"parse", "traverse"}
    /\ budget > 0
    /\ budget' = budget - 1
    /\ txRows' = dbRows
    /\ outcome' = "rolledback"
    /\ pc' = "finally"
    /\ UNCHANGED <<dlvars, importer, doc, segment_filter, dbExists, dbTables, dbRows, conn,
                   fkOn, counters, agenda, run, errs, trace, before, prev, summary>>

\* finally: close the connection if there is one, log the import summary
XmlFinally ==
    /\ pc = "finally"
    /\ conn' = IF conn = "open" THEN "closed" ELSE conn
    /\ txRows' = dbRows
    /\ summary' = Append(summary, counters)
    /\ pc' = "done"
    /\ UNCHANGED <<dlvars, importer, doc, segment_filter, budget, dbExists, dbTables, dbRows,
                   fkOn, counters, agenda, run, outcome, errs, trace, before, prev>>

-----------------------------------------------------------------------------
(* gpc_import_json.py: import_gpc_to_sqlite.  A JSON document is a mapping *)
(* with some of the keys segments, families, classes, bricks (levels 1..4),*)
(* each an array of records; a record's key that is absent reads None here *)
(* and raises KeyError when the importer subscripts it.                    *)

Rec(c, d, p) == [code |-> c, desc |-> d, parent |-> p]

\* the records an array of level L is filled from, in this order: "a" under
\* "a", "b" under "b", and "a" again with another description and parent
JsonRecs(L) ==
    LET P(x) == IF L = 1 THEN None ELSE x
    IN  << Rec("a", "t", P("a")), Rec("b", "u", P("b")), Rec("a", "u", P("b")) >>

JsonArray(L, n) == SubSeq(JsonRecs(L), 1, n)

\* <<level, key, value>>: the first record of the level's array gets the
\* value (None: the key is absent); level 0 changes nothing
JsonDefects ==
    {<<0, "code", "a">>}
    \cup (JsonLevels \X {"code", "desc"} \X {None, ""})
    \cup ((JsonLevels \ {1}) \X {"parent"} \X {None})

JsonWithDefect(arrays, d) ==
    IF d[1] = 0 \/ arrays[d[1]] = <<>> THEN arrays
    ELSE IF d[2] = "code" THEN [arrays EXCEPT ![d[1]][1].code = d[3]]
    ELSE IF d[2] = "desc" THEN [arrays EXCEPT ![d[1]][1].desc = d[3]]
    ELSE [arrays EXCEPT ![d[1]][1].parent = d[3]]

JsonDoc(st, ks, as) == [status |-> st, keys |-> ks, arrays |-> as]

JsonArrays(size) == [L \in JsonLevels |-> JsonArray(L, size[L])]

\* documents without a missing key or empty value
JsonCleanDocs ==
    { JsonDoc("ok", {L \in JsonLevels : size[L] > 0}, JsonArrays(size)) :
        size \in [JsonLevels -> 1..2] }

JsonDocs ==
    { JsonDoc("ok", {L \in JsonLevels : size[L] > 0},
              JsonWithDefect(JsonArrays(size), d)) :
        size \in [JsonLevels -> 0..Len(JsonRecs(1))], d \in JsonDefects }
    \cup { JsonDoc("ok", JsonLevels, [L \in JsonLevels |-> <<>>]),
           JsonDoc("malformed", {}, [L \in JsonLevels |-> <<>>]),
           JsonDoc("notfound", {}, [L \in JsonLevels |-> <<>>]) }

Filters == {None, "a"}

\* cursor.fetchone() of SELECT <parent column> FROM <table of level L> WHERE
\* <code column> = code: <<>> for no row, else <<parent>>
FetchParent(rows, L, code) ==
    IF code \in CodesOf(rows[L])
    THEN <<(CHOOSE r \in rows[L] : r.code = code).parent>>
    ELSE <<>>

\* the filter test lets every value pass
PassesAnyFilter(value) == TRUE

\* segment_filter is None or value == segment_filter
PassesFilter(value) == segment_filter = None \/ value = segment_filter

\* entry of import_gpc_to_sqlite
JsonStart ==
    /\ importer = "json"
    /\ pc \in {"idle", "done"}
    /\ run < MaxRuns
    /\ run' = run + 1
    /\ pc' = "load"
    /\ counters' = ZeroCounters
    /\ conn' = "none"
    /\ fkOn' = FALSE
    /\ txRows' = dbRows
    /\ agenda' = <<>>
    /\ outcome' = "none"
    /\ errs' = 0
    /\ trace' = <<>>
    /\ summary' = <<>>
    /\ before' = Snapshot
    /\ prev' = IF run = 0 THEN prev ELSE LastRun
    /\ segment_filter' \in Filters
    /\ UNCHANGED <<dlvars, importer, doc, budget, dbExists, dbTables, dbRows>>

\* open and json.load: FileNotFoundError and JSONDecodeError end the run
JsonLoad ==
    /\ pc = "load"
    /\ IF doc.status = "ok"
       THEN pc' = "connect" /\ UNCHANGED outcome
       ELSE pc' = "done" /\ outcome' = "aborted"
    /\ UNCHANGED <<dlvars, importer, doc, segment_filter, budget, dbExists, dbTables, dbRows,
                   conn, fkOn, txRows, counters, agenda, run, errs, trace, before,
                   prev, summary>>

\* the records of the arrays present, in the order the four loops take them
JsonAgenda(d) ==
    LET Of(L) == IF L \in d.keys
                 THEN [k \in 1..Len(d.arrays[L]) |-> Entry(k, L, None)]
                 ELSE <<>>
    IN  Of(1) \o Of(2) \o Of(3) \o Of(4)

\* sqlite3.connect and the four CREATE TABLE IF NOT EXISTS; no PRAGMA
JsonConnect ==
    /\ pc = "connect"
    /\ dbExists' = TRUE
    /\ conn' = "open"
    /\ dbTables' = dbTables \cup Range(JSON_TABLES)
    /\ agenda' = JsonAgenda(doc)
    /\ pc' = "insert"
    /\ UNCHANGED <<dlvars, importer, doc, segment_filter, budget, dbRows, fkOn, txRows,
                   counters, run, outcome, errs, trace, before, prev, summary>>

\* the except clause commits what the run has written so far
JsonAbortCommitting(why) ==
    /\ dbRows' = txRows
    /\ txRows' = txRows
    /\ conn' = IF conn = "open" THEN "lost" ELSE conn
    /\ outcome' = why
    /\ pc' = "done"
    /\ UNCHANGED <<dlvars, importer, doc, segment_filter, dbExists, dbTables, fkOn,
                   counters, agenda, run, errs, before, prev, summary>>

\* an exception caught by one of the except clauses: nothing is committed
\* and the connection, if opened, is not closed by the function
JsonAbort(why) ==
    /\ txRows' = dbRows
    /\ conn' = IF conn = "open" THEN "lost" ELSE conn
    /\ outcome' = why
    /\ pc' = "done"
    /\ UNCHANGED <<dlvars, importer, doc, segment_filter, dbExists, dbTables, dbRows, fkOn,
                   counters, agenda, run, errs, before, prev, summary>>

\* the INSERT OR IGNORE of a record, or the sqlite3.Error it raises
JsonExecuteInsert(L, e, r) ==
    LET res == InsertOrIgnore(txRows, L, r.code, r.desc, r.parent, fkOn, FALSE)
    IN  IF res.status = "error"
        THEN /\ JsonAbort("sqlite_error")
             /\ trace' = Append(trace, Event(e.node, L, r.parent, "error"))
        ELSE /\ txRows' = res.rows
             /\ trace' = Append(trace, Event(e.node, L, r.parent, res.status))
             /\ agenda' = Tail(agenda)
             /\ UNCHANGED <<dlvars, importer, doc, segment_filter, dbExists, dbTables, dbRows,
                            conn, fkOn, counters, pc, run, outcome, errs, before, prev,
                            summary>>

\* the record is passed over without an insert
JsonPassOver(L, e, r, why) ==
    /\ trace' = Append(trace, Event(e.node, L, r.parent, why))
    /\ agenda' = Tail(agenda)
    /\ UNCHANGED <<dlvars, importer, doc, segment_filter, dbExists, dbTables, dbRows, conn,
                   fkOn, txRows, counters, pc, run, outcome, errs, before, prev,
                   summary>>

\* except KeyError: a key of the record is absent
JsonKeyError(L, e, r) ==
    /\ JsonAbort("keyerror")
    /\ trace' = Append(trace, Event(e.node, L, r.parent, "keyerror"))

\* one iteration of the loop over data['segments']
JsonInsertSegment ==
    /\ pc = "insert" /\ agenda # <<>> /\ Head(agenda).level = 1
    /\ LET e == Head(agenda)
           r == doc.arrays[1][e.node]
       IN  IF r.code = None \/ r.desc = None
           THEN JsonKeyError(1, e, r)
           ELSE JsonExecuteInsert(1, e, r)
    /\ UNCHANGED budget

\* one iteration of the loop over data['families']
JsonInsertFamily ==
    /\ pc = "insert" /\ agenda # <<>> /\ Head(agenda).level = 2
    /\ LET e == Head(agenda)
           r == doc.arrays[2][e.node]
       IN  IF segment_filter # None /\ r.parent = None
           THEN JsonKeyError(2, e, r)
           ELSE IF ~PassesFilter(r.parent)
           THEN JsonPassOver(2, e, r, "filtered")
           ELSE IF r.code = None \/ r.desc = None \/ r.parent = None
           THEN JsonKeyError(2, e, r)
           ELSE JsonExecuteInsert(2, e, r)
    /\ UNCHANGED budget

\* one iteration of the loop over data['classes']
JsonInsertClass ==
    /\ pc = "insert" /\ agenda # <<>> /\ Head(agenda).level = 3
    /\ LET e == Head(agenda)
           r == doc.arrays[3][e.node]
           segment_code == FetchParent(txRows, 2, r.parent)
       IN  IF r.parent = None
           THEN JsonKeyError(3, e, r)
           ELSE IF segment_code = <<>>
           THEN JsonPassOver(3, e, r, "dropped")
           ELSE IF ~PassesFilter(segment_code[1])
           THEN JsonPassOver(3, e, r, "filtered")
           ELSE IF r.code = None \/ r.desc = None
           THEN JsonKeyError(3, e, r)
           ELSE JsonExecuteInsert(3, e, r)
    /\ UNCHANGED budget

\* one iteration of the loop over data['bricks']
JsonInsertBrick ==
    /\ pc = "insert" /\ agenda # <<>> /\ Head(agenda).level = 4
    /\ LET e == Head(agenda)
           r == doc.arrays[4][e.node]
           family_code == FetchParent(txRows, 3, r.parent)
           segment_code == IF family_code = <<>> THEN <<>>
                           ELSE FetchParent(txRows, 2, family_code[1])
       IN  IF r.parent = None
           THEN JsonKeyError(4, e, r)
           ELSE IF family_code = <<>> \/ segment_code = <<>>
           THEN JsonPassOver(4, e, r, "dropped")
           ELSE IF ~PassesFilter(segment_code[1])
           THEN JsonPassOver(4, e, r, "filtered")
           ELSE IF r.code = None \/ r.desc = None
           THEN JsonKeyError(4, e, r)
           ELSE JsonExecuteInsert(4, e, r)
    /\ UNCHANGED budget

\* conn.commit(), conn.close() and the success message
JsonCommit ==
    /\ pc = "insert"
    /\ agenda = <<>>
    /\ dbRows' = txRows
    /\ conn' = "closed"
    /\ outcome' = "committed"
    /\ pc' = "done"
    /\ UNCHANGED <<dlvars, importer, doc, segment_filter, budget, dbExists, dbTables, fkOn,
                   txRows, counters, agenda, run, errs, trace, before, prev, summary>>

\* except sqlite3.Error: raised by the environment on sqlite3.connect (no
\* connection), on a CREATE TABLE after k tables, or on a later statement
JsonSqliteError ==
    /\ pc \in {"connect", "insert"}
    /\ budget > 0
    /\ budget' = budget - 1
    /\ IF pc = "connect"
       THEN \/ UNCHANGED <<dbExists, dbTables, conn>>
            \/ \E k \in 0..(Len(JSON_TABLES) - 1) :
                 /\ dbExists' = TRUE
                 /\ conn' = "lost"
                 /\ dbTables' = dbTables \cup {JSON_TABLES[j] : j \in 1..k}
       ELSE /\ conn' = "lost"
            /\ UNCHANGED <<dbExists, dbTables>>
    /\ txRows' = dbRows
    /\ outcome' = "sqlite_error"
    /\ pc' = "done"
    /\ UNCHANGED <<dlvars, importer, doc, segment_filter, dbRows, fkOn, counters, agenda,
                   run, errs, trace, before, prev, summary>>

-----------------------------------------------------------------------------
(* gpc_import_xml.py: download_latest_gpc_xml and _download_gpc_xml.  The   *)
(* gpcc calls (get_language, get_publications, fetch_file), os.makedirs and *)
(* open are the environment: each may succeed, fail or raise.               *)

DEFAULT_ARG_XML_FILE == "./imports/gpc_data.xml"
GPC_DOWNLOAD_DIR == "./imports"
GPC_DOWNLOAD_FILENAME == "gpc_latest.xml"

\* os.path.join(GPC_DOWNLOAD_DIR, GPC_DOWNLOAD_FILENAME)
download_path == "./imports/gpc_latest.xml"

\* the download path is returned whatever the download reported
DownloadPathAlways(ok) == download_path

\* if success: return download_path, else: return DEFAULT_ARG_XML_FILE
PathFor(ok) == IF ok THEN download_path ELSE DEFAULT_ARG_XML_FILE

\* download_latest_gpc_xml is left with the given path
DownloadReturn(path, reason) ==
    /\ returned' = path
    /\ dlWhy' = reason
    /\ dlPc' = "returned"

\* entry of download_latest_gpc_xml: without the gpcc library the cached
\* default is returned at once
DownloadStart ==
    /\ dlPc \in {"idle", "returned"}
    /\ Len(calls) < MaxCalls
    /\ calls' = IF dlPc = "returned" THEN Append(calls, returned) ELSE calls
    /\ success' = FALSE
    /\ IF HAS_GPCC
       THEN /\ dlPc' = "makedirs"
            /\ returned' = None
            /\ dlWhy' = "none"
       ELSE DownloadReturn(DEFAULT_ARG_XML_FILE, "no_client")
    /\ UNCHANGED <<xvars, HAS_GPCC, dirMade, latest>>

\* os.makedirs(GPC_DOWNLOAD_DIR, exist_ok=True), then asyncio.run enters
\* _download_gpc_xml
MakeDownloadDir ==
    /\ dlPc = "makedirs"
    /\ dirMade' = TRUE
    /\ dlPc' = "language"
    /\ UNCHANGED <<xvars, HAS_GPCC, latest, success, returned, dlWhy, calls>>

\* except Exception of download_latest_gpc_xml: os.makedirs or asyncio.run
\* raised
DownloadRaises ==
    /\ dlPc = "makedirs"
    /\ DownloadReturn(DEFAULT_ARG_XML_FILE, "raised")
    /\ UNCHANGED <<xvars, HAS_GPCC, dirMade, latest, success, calls>>

\* _download_gpc_xml returns False: a call found nothing, or raised and the
\* except clause caught it
DownloadFails ==
    /\ success' = FALSE
    /\ dlPc' = "result"
    /\ UNCHANGED <<xvars, HAS_GPCC, dirMade, returned, dlWhy, calls>>

\* lang = await get_language('en')
GetLanguage ==
    /\ dlPc = "language"
    /\ \/ /\ dlPc' = "publications"
          /\ UNCHANGED <<xvars, HAS_GPCC, dirMade, latest, success, returned, dlWhy, calls>>
       \/ DownloadFails /\ UNCHANGED latest

\* publications = await get_publications(lang)
GetPublications ==
    /\ dlPc = "publications"
    /\ \/ /\ dlPc' = "open"
          /\ UNCHANGED <<xvars, HAS_GPCC, dirMade, latest, success, returned, dlWhy, calls>>
       \/ DownloadFails /\ UNCHANGED latest

\* open(output_path, 'wb'): the file is created or truncated
OpenStream ==
    /\ dlPc = "open"
    /\ \/ /\ latest' = "partial"
          /\ dlPc' = "fetch"
          /\ UNCHANGED <<xvars, HAS_GPCC, dirMade, success, returned, dlWhy, calls>>
       \/ DownloadFails /\ UNCHANGED latest

\* await fetch_file(stream, publication, format='xml'); return True
FetchFile ==
    /\ dlPc = "fetch"
    /\ \/ /\ latest' = "complete"
          /\ success' = TRUE
          /\ dlPc' = "result"
          /\ UNCHANGED <<xvars, HAS_GPCC, dirMade, returned, dlWhy, calls>>
       \/ DownloadFails /\ UNCHANGED latest

\* back in download_latest_gpc_xml: the path for what the download reported
DownloadResult ==
    /\ dlPc = "result"
    /\ DownloadReturn(PathFor(success), IF success THEN "success" ELSE "failure")
    /\ UNCHANGED <<xvars, HAS_GPCC, dirMade, latest, success, calls>>

-----------------------------------------------------------------------------
(* The specification *)

InitStore ==
    /\ dbExists = FALSE
    /\ dbTables = {}
    /\ dbRows = EmptyRows
    /\ conn = "none"
    /\ fkOn = FALSE
    /\ txRows = EmptyRows
    /\ counters = ZeroCounters
    /\ agenda = <<>>
    /\ pc = "idle"
    /\ run = 0
    /\ outcome = "none"
    /\ errs = 0
    /\ trace = <<>>
    /\ before = [exists |-> FALSE, tables |-> {}, rows |-> EmptyRows]
    /\ prev = NoRun
    /\ summary = <<>>

\* the XML importer on a document, in an environment with or without faults
\* (faults are injected on the documents without a missing attribute)
InitXml ==
    /\ importer = "xml"
    /\ doc \in XmlDocs
    /\ segment_filter = None
    /\ budget \in {0, MaxFaults}
    /\ budget > 0 => doc \in XmlCleanDocs

\* the JSON importer on a document; each run is given a segment filter or none
InitJson ==
    /\ importer = "json"
    /\ doc \in JsonDocs
    /\ segment_filter = None
    /\ budget \in {0, MaxFaults}
    /\ budget > 0 => doc \in JsonCleanDocs

\* no call of download_latest_gpc_xml yet
InitDownload ==
    /\ dlPc = "idle"
    /\ dirMade = FALSE
    /\ latest = "absent"
    /\ success = FALSE
    /\ returned = None
    /\ dlWhy = "none"
    /\ calls = <<>>

\* the importers, called with a document path of their own
Init == InitStore /\ (InitXml \/ InitJson) /\ InitDownload /\ HAS_GPCC = TRUE

Next ==
    \/ XmlStart
    \/ SetupDatabaseOk
    \/ SetupDatabaseFails
    \/ ParseXml
    \/ VisitSegment
    \/ VisitFamily
    \/ VisitClass
    \/ VisitBrick
    \/ VisitAttributeType
    \/ VisitAttributeValue
    \/ XmlCommit
    \/ XmlUnexpectedError
    \/ XmlFinally
    \/ JsonStart
    \/ JsonLoad
    \/ JsonConnect
    \/ JsonInsertSegment
    \/ JsonInsertFamily
    \/ JsonInsertClass
    \/ JsonInsertBrick
    \/ JsonCommit
    \/ JsonSqliteError

Spec == Init /\ [][Next]_vars

\* download_latest_gpc_xml called repeatedly, with or without the gpcc
\* library and with a download file left by an earlier process or none
InitDownloadCalls ==
    /\ InitStore
    /\ importer = "xml"
    /\ doc = XmlDoc("ok", EXPECTED_ROOT_TAG, Chain(Len(TAG)))
    /\ segment_filter = None
    /\ budget = 0
    /\ HAS_GPCC \in BOOLEAN
    /\ dlPc = "idle"
    /\ dirMade \in BOOLEAN
    /\ latest \in {"absent", "partial", "complete"}
    /\ dirMade = FALSE => latest = "absent"
    /\ success = FALSE
    /\ returned = None
    /\ dlWhy = "none"
    /\ calls = <<>>

NextDownload ==
    \/ DownloadStart
    \/ MakeDownloadDir
    \/ DownloadRaises
    \/ GetLanguage
    \/ GetPublications
    \/ OpenStream
    \/ FetchFile
    \/ DownloadResult

SpecDownload == InitDownloadCalls /\ [][NextDownload]_vars

-----------------------------------------------------------------------------
(* Properties *)

\* an INSERT statement was executed for the event's element
Executed(ev) == ev.result \in {"inserted", "ignored", "error"}

EventsAt(L) == {k \in 1..Len(trace) : trace[k].level = L}

InsertedAt(L) == {k \in EventsAt(L) : trace[k].result = "inserted"}

\* C1: referential integrity.  Every committed row of the family, class,
\* brick, attribute-type and attribute-value tables has a parent code that
\* is the primary key of a committed row of the parent table.
C1_ReferentialIntegrity ==
    \A L \in Levels \ {1} :
        \A r \in dbRows[L] : r.parent \in CodesOf(dbRows[L - 1])

\* the run met no storage error and no unexpected error
Undisturbed(o, e) == e = 0 /\ o \notin {"rolledback", "setup_failed", "sqlite_error"}

JsonMissing(r) == Falsy(r.code) \/ Falsy(r.desc)

\* a record of level L - 1 or above, on the chain of parent codes of record
\* r of level L, has its code or description absent or empty
RECURSIVE JsonAncestorMissing(_, _)
JsonAncestorMissing(L, r) ==
    /\ L > 1
    /\ (L - 1) \in doc.keys
    /\ \E p \in Range(doc.arrays[L - 1]) :
         /\ p.code = r.parent
         /\ JsonMissing(p) \/ JsonAncestorMissing(L - 1, p)

\* C3: skip-on-missing.  No row is committed for a node whose code or
\* description is empty or absent, nor for any node of its subtree, in the
\* XML and in the JSON importer.
C3_SkipOnMissing ==
    outcome = "committed" =>
      \A k \in 1..Len(trace) :
        trace[k].result = "inserted" =>
          IF importer = "xml"
          THEN /\ ~Skipped(doc.nodes[trace[k].node])
               /\ \A i \in 1..Len(doc.nodes) :
                    IsDescendant(doc.nodes, i, trace[k].node) => ~Skipped(doc.nodes[i])
          ELSE LET r == doc.arrays[trace[k].level][trace[k].node]
               IN  ~JsonMissing(r) /\ ~JsonAncestorMissing(trace[k].level, r)

\* C4: filter correctness.  After a committed run with segment filter S into
\* the empty store, the store holds no segment other than S and only
\* families of S, classes of those families and bricks of those classes.
C4_FilterCorrectness ==
    ( /\ importer = "json"
      /\ pc = "done"
      /\ outcome = "committed"
      /\ segment_filter # None
      /\ before.rows = EmptyRows )
    => /\ CodesOf(dbRows[1]) \subseteq {segment_filter}
       /\ \A r \in dbRows[2] : r.parent = segment_filter
       /\ \A r \in dbRows[3] : r.parent \in CodesOf(dbRows[2])
       /\ \A r \in dbRows[4] : r.parent \in CodesOf(dbRows[3])

\* the elements the loop of level L reaches in a run that is not cut short
RECURSIVE Scope(_, _)
Scope(nodes, L) ==
    IF L = 1 THEN Range(SegmentElements(nodes))
    ELSE { j \in 1..Len(nodes) :
             /\ nodes[j].tag = TAG[L]
             /\ \E i \in Scope(nodes, L - 1) :
                  ~Skipped(nodes[i]) /\ IsChild(nodes, i, j) }

SkippedIn(nodes, L) == {j \in Scope(nodes, L) : Skipped(nodes[j])}

\* elements of level L whose code was in the table before the run or is the
\* code of an earlier element of the run
DuplicatesIn(nodes, L, rows0) ==
    { j \in Scope(nodes, L) \ SkippedIn(nodes, L) :
        \/ nodes[j].code \in CodesOf(rows0[L])
        \/ \E i \in Scope(nodes, L) \ SkippedIn(nodes, L) :
             i < j /\ nodes[i].code = nodes[j].code }

\* C5: counter accuracy.  At the end of a committed XML run without storage
\* errors, at each level processed is the number of elements of the level in
\* the processed scope, and inserted is processed minus the elements whose
\* code was already present minus the elements skipped.
C5_CounterAccuracy ==
    ( /\ importer = "xml"
      /\ pc = "done"
      /\ outcome = "committed"
      /\ errs = 0 )
    => \A L \in Levels :
         /\ counters.processed[L] = Cardinality(Scope(doc.nodes, L))
         /\ counters.inserted[L] =
              counters.processed[L]
              - Cardinality(DuplicatesIn(doc.nodes, L, before.rows))
              - Cardinality(SkippedIn(doc.nodes, L))

\* a first run with a skipped element and an element whose code repeats
C5_Witness ==
    /\ importer = "xml"
    /\ run = 1
    /\ pc = "done"
    /\ outcome = "committed"
    /\ errs = 0
    /\ \E k \in 1..Len(trace) : trace[k].result = "skipped"
    /\ \E k \in 1..Len(trace) : trace[k].result = "ignored"
    /\ \E L \in Levels : counters.processed[L] = 2 /\ counters.inserted[L] = 1

\* C6: all-or-nothing run of the XML importer.  Nothing is committed while
\* the run is under way; after an unexpected error the store is as it was
\* before the run (same file, same tables, same rows); without one, every
\* row written during the run is committed at the end.
C6_AllOrNothing ==
    importer = "xml" =>
      /\ outcome = "none" => dbRows = before.rows
      /\ outcome = "rolledback" =>
           /\ dbExists = before.exists
           /\ dbTables = before.tables
           /\ dbRows = before.rows
      /\ outcome = "committed" =>
           \A k \in 1..Len(trace) :
             trace[k].result = "inserted" =>
               \E r \in dbRows[trace[k].level] :
                 /\ r.code = doc.nodes[trace[k].node].code
                 /\ r.desc = doc.nodes[trace[k].node].text
                 /\ r.parent = trace[k].parent

\* the element whose loop visits element i (0: the root)
ParentElem(nodes, i) ==
    IF \E p \in 1..(i - 1) : IsChild(nodes, p, i)
    THEN CHOOSE p \in 1..(i - 1) : IsChild(nodes, p, i)
    ELSE 0

\* the elements the loop that visits element i of level L goes on to after i
LaterSiblings(nodes, i, L) ==
    { j \in Range(IF L = 1 THEN SegmentElements(nodes)
                  ELSE FindAll(nodes, ParentElem(nodes, i), TAG[L])) : j > i }

Pending(j, p) == \E a \in 1..Len(agenda) : agenda[a].node = j /\ agenda[a].parent = p

VisitedAfter(k, j, p) ==
    \E m \in (k + 1)..Len(trace) : trace[m].node = j /\ trace[m].parent = p

\* C7: a storage error of one insert does not abort the XML traversal.
\* The element is counted as processed and not as inserted; unless an
\* unexpected error ends the run, each of its children is visited with the
\* element's code as parent code, each later sibling is visited, and the run
\* ends committed.
C7_StorageErrorContinues ==
    importer = "xml" =>
      /\ \A L \in Levels :
           /\ counters.processed[L] = Cardinality(EventsAt(L))
           /\ counters.inserted[L] = Cardinality(InsertedAt(L))
      /\ \A k \in 1..Len(trace) :
           (trace[k].result = "error" /\ outcome # "rolledback") =>
             LET i == trace[k].node
                 L == trace[k].level
             IN  /\ L < Len(TAG) =>
                       \A j \in Range(FindAll(doc.nodes, i, TAG[L + 1])) :
                         \/ Pending(j, doc.nodes[i].code)
                         \/ VisitedAfter(k, j, doc.nodes[i].code)
                 /\ \A j \in LaterSiblings(doc.nodes, i, L) :
                         \/ Pending(j, trace[k].parent)
                         \/ VisitedAfter(k, j, trace[k].parent)
                 /\ pc = "done" => outcome = "committed"

\* a committed run in which an insert raised a storage error, a child of the
\* element was visited afterwards and a later sibling was inserted
C7_Witness ==
    /\ importer = "xml"
    /\ pc = "done"
    /\ outcome = "committed"
    /\ \E k \in 1..Len(trace) :
         /\ trace[k].result = "error"
         /\ \E m \in (k + 1)..Len(trace) :
              /\ IsChild(doc.nodes, trace[k].node, trace[m].node)
              /\ trace[m].parent = doc.nodes[trace[k].node].code
         /\ \E m \in (k + 1)..Len(trace) :
              /\ trace[m].node \in LaterSiblings(doc.nodes, trace[k].node, trace[k].level)
              /\ trace[m].result = "inserted"

\* C8: foreign-key enforcement is on for the connection before the first
\* insert statement of a run is executed, in both importers.
C8_ForeignKeysBeforeInsert ==
    (\E k \in 1..Len(trace) : Executed(trace[k])) => fkOn

\* C9: when the document cannot be parsed, the store is not accessed: no
\* connection is opened, no file or directory and no table is created.
C9_NoStoreAccessOnParseFailure ==
    doc.status # "ok" => conn = "none" /\ ~dbExists /\ dbTables = {}

\* C10: when the XML root tag is not the expected one the run aborts: no
\* element is processed, no row is written and all counters stay 0.
C10_RootTagMismatch ==
    (importer = "xml" /\ doc.status = "ok" /\ doc.root # EXPECTED_ROOT_TAG) =>
      /\ counters = ZeroCounters
      /\ trace = <<>>
      /\ agenda = <<>>
      /\ txRows = EmptyRows
      /\ dbRows = EmptyRows
      /\ pc # "traverse"
      /\ outcome \in {"none", "aborted"}

\* a run on a document with another root tag has ended
C10_Witness ==
    /\ importer = "xml"
    /\ doc.status = "ok"
    /\ doc.root # EXPECTED_ROOT_TAG
    /\ Len(doc.nodes) > 0
    /\ pc = "done"
    /\ outcome = "aborted"

\* C11: every import run, of either importer, ends having emitted the
\* per-level processed/inserted summary exactly once, whatever its outcome,
\* and the summary shows the counters as they stand at the end of the run.
C11_SummaryOnEveryPath ==
    /\ pc # "done" => summary = <<>>
    /\ (pc = "done" /\ run > 0) => summary = <<counters>>

\* C12: a connection opened by a run is closed when the run has returned,
\* whatever the outcome.
C12_ConnectionReleased ==
    (pc = "done" /\ run > 0) => conn \in {"none", "closed"}

\* the code, description and parent code the event's insert statement carries
EventRow(ev) ==
    IF importer = "xml"
    THEN Row(doc.nodes[ev.node].code, doc.nodes[ev.node].text, ev.parent)
    ELSE LET r == doc.arrays[ev.level][ev.node]
         IN  Row(r.code, r.desc, r.parent)

\* C13: additive only, never updated.  No step removes or changes a
\* committed row; an insert attempt keeps every row the connection saw
\* before it, and changes nothing at all when the code is already in the
\* level's table, whatever description and parent code the record carries;
\* no table ever holds two rows with one code.
C13_AdditiveOnly ==
    /\ [](\A L \in Levels : \A r1, r2 \in txRows[L] : r1.code = r2.code => r1 = r2)
    /\ [][ /\ \A L \in Levels : dbRows[L] \subseteq dbRows'[L]
           /\ (Len(trace') = Len(trace) + 1 /\ Executed(trace'[Len(trace')])) =>
                LET ev == trace'[Len(trace')]
                IN  /\ \A L \in Levels : txRows[L] \subseteq txRows'[L]
                    /\ EventRow(ev).code \in CodesOf(txRows[ev.level]) =>
                         txRows' = txRows /\ dbRows' = dbRows /\ ev.result # "inserted"
         ]_vars

\* an insert was ignored whose record carries another description and
\* another parent code than the stored row with its code
C13_Witness ==
    /\ outcome = "committed"
    /\ \E k \in 1..Len(trace) :
         /\ trace[k].result = "ignored"
         /\ \E r \in dbRows[trace[k].level] :
              /\ r.code = EventRow(trace[k]).code
              /\ r.desc # EventRow(trace[k]).desc
              /\ r.parent # EventRow(trace[k]).parent

\* what process_gpc_xml hands back to main for a run with the given outcome:
\* the bare return statements after a failed setup, a parse failure or an
\* unexpected root tag, and the end of the function body after the finally
\* block, all return None
ReturnValue(o) ==
    CASE o = "setup_failed" -> None
      [] o = "aborted" -> None
      [] o = "rolledback" -> None
      [] OTHER -> None

\* the exit status of the script: main calls process_gpc_xml, ignores what it
\* returns and never calls sys.exit
ExitStatus(o) == 0

\* C14: a run ended by a fatal error reports a non-zero (failure) outcome to
\* its caller, and what it returns differs from what a committed run returns.
C14_FatalErrorReported ==
    (importer = "xml" /\ pc = "done" /\ outcome = "rolledback") =>
      /\ ExitStatus(outcome) # 0
      /\ ReturnValue(outcome) # ReturnValue("committed")

\* the JSON run has neither been cut short nor lost its transaction: the
\* rows the connection sees are those its lookups saw, plus later inserts
JsonRunIntact == importer = "json" /\ outcome \in {"none", "committed"}

\* the family row, and through it the segment code, a class or brick
\* record's lookups arrive at: <<>> when a lookup finds no row
ResolvedSegment(rows, L, parent) ==
    IF L = 3 THEN FetchParent(rows, 2, parent)
    ELSE LET family_code == FetchParent(rows, 3, parent)
         IN  IF family_code = <<>> THEN <<>>
             ELSE FetchParent(rows, 2, family_code[1])

\* C15: ancestor resolution of the JSON importer.  An insert is executed for
\* a class record only if its family code is found in the family table and,
\* with a filter, the stored segment code of that family equals the filter;
\* for a brick record only if its class is found, the class's family is
\* found and, with a filter, that family's segment code equals the filter.
\* A record whose lookup fails is dropped without an insert and without
\* ending the run: the records after it are still taken.
C15_AncestorResolution ==
    JsonRunIntact =>
      /\ \A k \in 1..Len(trace) :
           trace[k].level \in {3, 4} =>
             LET seg == ResolvedSegment(txRows, trace[k].level, trace[k].parent)
             IN  /\ Executed(trace[k]) =>
                      /\ seg # <<>>
                      /\ segment_filter # None => seg[1] = segment_filter
                 /\ trace[k].result = "dropped" <=> seg = <<>>
                 /\ trace[k].result = "filtered" =>
                      seg # <<>> /\ segment_filter # None /\ seg[1] # segment_filter
      /\ pc \in {"insert", "done"} =>
           Len(trace) + Len(agenda) = Len(JsonAgenda(doc))
      /\ outcome = "committed" => Len(trace) = Len(JsonAgenda(doc))

\* a committed filtered run in which a class record was dropped, a later
\* record was inserted, and a brick record was inserted through its lookups
C15_Witness ==
    /\ importer = "json"
    /\ outcome = "committed"
    /\ segment_filter # None
    /\ \E k \in 1..Len(trace) :
         /\ trace[k].level = 3
         /\ trace[k].result = "dropped"
         /\ \E m \in (k + 1)..Len(trace) : trace[m].result = "inserted"
    /\ \E k \in 1..Len(trace) : trace[k].level = 4 /\ trace[k].result = "inserted"

ChildrenOf(nodes, i) == {j \in 1..Len(nodes) : IsChild(nodes, i, j)}

\* C16: skipping is local.  An element of any level of the XML document
\* whose code is absent or empty is skipped: it is counted as processed at
\* its level only, no insert is made for it, the rows, the inserted counters
\* and the processed counters of the other levels stay as they are, and the
\* traversal goes on with exactly the elements that were to follow it; none
\* of its children is ever visited, and unless an unexpected error ends the
\* run every later sibling under the same parent is visited with the same
\* parent code.
C16_SkipIsLocal ==
    /\ [](importer = "xml" =>
            \A k \in 1..Len(trace) :
              Falsy(doc.nodes[trace[k].node].code) =>
                /\ trace[k].result = "skipped"
                /\ \A j \in ChildrenOf(doc.nodes, trace[k].node) :
                     /\ \A m \in 1..Len(trace) : trace[m].node # j
                     /\ \A a \in 1..Len(agenda) : agenda[a].node # j
                /\ outcome # "rolledback" =>
                     \A j \in LaterSiblings(doc.nodes, trace[k].node, trace[k].level) :
                       \/ Pending(j, trace[k].parent)
                       \/ VisitedAfter(k, j, trace[k].parent))
    /\ [][ (importer = "xml" /\ Len(trace') = Len(trace) + 1
            /\ Falsy(doc.nodes[trace'[Len(trace')].node].code)) =>
             /\ txRows' = txRows /\ dbRows' = dbRows
             /\ agenda' = Tail(agenda)
             /\ counters'.inserted = counters.inserted
             /\ counters'.processed =
                  [counters.processed EXCEPT ![trace'[Len(trace')].level] = @ + 1]
         ]_vars

\* a committed run in which a brick without a code was skipped, its
\* attribute-type child was not visited and a later brick of the same class
\* was inserted
C16_Witness ==
    /\ importer = "xml"
    /\ outcome = "committed"
    /\ \E k \in 1..Len(trace) :
         /\ trace[k].level = 4
         /\ doc.nodes[trace[k].node].code = None
         /\ ChildrenOf(doc.nodes, trace[k].node) # {}
         /\ counters.processed[5] = 0
         /\ \E m \in (k + 1)..Len(trace) :
              /\ trace[m].node \in LaterSiblings(doc.nodes, trace[k].node, 4)
              /\ trace[m].result = "inserted"

\* the record of event m lies below the record of event k: in the XML
\* document as a descendant element, in the JSON arrays through its chain of
\* parent codes
RECURSIVE JsonBelow(_, _, _, _)
JsonBelow(L, r, La, ra) ==
    /\ L > La
    /\ \/ L = La + 1 /\ r.parent = ra.code
       \/ /\ (L - 1) \in doc.keys
          /\ \E p \in Range(doc.arrays[L - 1]) :
               p.code = r.parent /\ JsonBelow(L - 1, p, La, ra)

Below(k, m) ==
    IF importer = "xml"
    THEN IsDescendant(doc.nodes, trace[k].node, trace[m].node)
    ELSE JsonBelow(trace[m].level, doc.arrays[trace[m].level][trace[m].node],
                   trace[k].level, doc.arrays[trace[k].level][trace[k].node])

\* C17: strict top-down insertion order.  Within a run the insert attempt
\* for a node comes before the insert attempt of each of its descendants,
\* and every row of a level below the first that the run has written has
\* its parent code in the parent table as the connection sees it (rows are
\* only added while the run is under way, so the parent row was there when
\* the child row was written).
C17_TopDownOrder ==
    outcome \in {"none", "committed"} =>
      /\ \A k, m \in 1..Len(trace) :
           (Executed(trace[k]) /\ Executed(trace[m]) /\ Below(k, m)) => k < m
      /\ \A m \in 1..Len(trace) :
           (trace[m].result = "inserted" /\ trace[m].level > 1) =>
             trace[m].parent \in CodesOf(txRows[trace[m].level - 1])

\* C18: download fallback.  download_latest_gpc_xml returns a document
\* path: the path of the freshly downloaded file exactly when the gpcc
\* library is available and the download reported success, and the cached
\* default path in every other case (library missing, download reported
\* failure, an exception raised).
C18_DownloadFallback ==
    /\ dlPc = "returned" =>
         /\ returned \in {download_path, DEFAULT_ARG_XML_FILE}
         /\ returned = download_path <=> (HAS_GPCC /\ success)
         /\ returned = download_path => latest = "complete" /\ dlWhy = "success"
         /\ dlWhy \in {"no_client", "failure", "raised"} => returned = DEFAULT_ARG_XML_FILE
         /\ dlWhy # "none"
    /\ dlPc # "returned" => returned = None

\* a call returned the downloaded file after an earlier call fell back to
\* the default, and a call fell back after the download raised
C18_Witness ==
    /\ dlPc = "returned"
    /\ Len(calls) = 2
    /\ calls[1] = DEFAULT_ARG_XML_FILE
    /\ calls[2] = download_path
    /\ returned = DEFAULT_ARG_XML_FILE
    /\ dlWhy = "failure"
    /\ latest = "partial"

\* C19: in every state of an XML import run each level has
\* 0 <= inserted <= processed, and no step of a run lowers a counter.
C19_CounterBounds ==
    /\ [](importer = "xml" =>
            \A L \in Levels :
              /\ 0 <= counters.inserted[L]
              /\ counters.inserted[L] <= counters.processed[L])
    /\ [][ (importer = "xml" /\ run' = run) =>
             \A L \in Levels :
               /\ counters'.processed[L] >= counters.processed[L]
               /\ counters'.inserted[L] >= counters.inserted[L]
         ]_vars

\* a run under way with a level at which fewer elements were inserted than
\* processed, and a level at which all were
C19_Witness ==
    /\ importer = "xml"
    /\ pc = "traverse"
    /\ \E L \in Levels : 0 < counters.inserted[L] /\ counters.inserted[L] < counters.processed[L]
    /\ \E L \in Levels : 0 < counters.inserted[L] /\ counters.inserted[L] = counters.processed[L]

\* C20: in the XML importer the descent into the children of a valid
\* element does not depend on the outcome of the element's insert.  When the
\* insert was ignored because the code is in the table already, under
\* whatever parent, each child element is still visited, with the element's
\* code as parent code, and each child row written carries that code as its
\* parent code: it hangs below the row stored earlier with that code.
C20_DescentAfterDuplicate ==
    (importer = "xml" /\ outcome \in {"none", "committed"}) =>
      \A k \in 1..Len(trace) :
        trace[k].result = "ignored" =>
          LET i == trace[k].node
              L == trace[k].level
              code == doc.nodes[i].code
          IN  /\ code \in CodesOf(txRows[L])
              /\ L < Len(TAG) =>
                   /\ \A j \in Range(FindAll(doc.nodes, i, TAG[L + 1])) :
                        Pending(j, code) \/ VisitedAfter(k, j, code)
                   /\ \A m \in (k + 1)..Len(trace) :
                        ( /\ IsChild(doc.nodes, i, trace[m].node)
                          /\ trace[m].result = "inserted" ) =>
                            /\ trace[m].parent = code
                            /\ Row(doc.nodes[trace[m].node].code,
                                   doc.nodes[trace[m].node].text, code)
                                 \in txRows[L + 1]

\* a committed run in which the insert of an element was ignored, the row
\* with its code is stored under another parent, and a child of the element
\* was inserted below that row
C20_Witness ==
    /\ importer = "xml"
    /\ outcome = "committed"
    /\ \E k \in 1..Len(trace) :
         /\ trace[k].result = "ignored"
         /\ \E r \in dbRows[trace[k].level] :
              /\ r.code = doc.nodes[trace[k].node].code
              /\ r.parent # trace[k].parent
         /\ \E m \in (k + 1)..Len(trace) :
              /\ IsChild(doc.nodes, trace[k].node, trace[m].node)
              /\ trace[m].result = "inserted"

\* the record lacks one of the keys its loop subscripts
LacksKey(L, r) == r.code = None \/ r.desc = None \/ (L > 1 /\ r.parent = None)

\* the records of the arrays present that lack a key, as <<level, index>>
DefectiveRecords ==
    { p \in JsonLevels \X (1..Len(JsonRecs(1))) :
        /\ p[1] \in doc.keys
        /\ p[2] <= Len(doc.arrays[p[1]])
        /\ LacksKey(p[1], doc.arrays[p[1]][p[2]]) }

\* C21 as stated: when any record of any of the four arrays lacks a key, the
\* JSON run ends without a commit and the rows of the store are those before
\* the run.
C21_AsStated ==
    (importer = "json" /\ pc = "done" /\ run > 0 /\ DefectiveRecords # {}) =>
      /\ outcome # "committed"
      /\ dbRows = before.rows

\* C21, amended: when the JSON importer subscripts a key that a record lacks,
\* the run ends there without a commit: the rows written earlier in the run
\* are not persisted and the rows of the store are those before the run.  A
\* run over a document with such a record commits only when every such
\* record was passed over (filtered out, or dropped after a failed lookup)
\* before the absent key was read.
C21_KeyErrorNoCommit ==
    importer = "json" =>
      /\ outcome = "none" => dbRows = before.rows
      /\ \A k \in 1..Len(trace) :
           trace[k].result = "keyerror" =>
             /\ k = Len(trace)
             /\ <<trace[k].level, trace[k].node>> \in DefectiveRecords
             /\ outcome = "keyerror"
             /\ pc = "done"
             /\ dbRows = before.rows
             /\ txRows = before.rows
      /\ outcome = "committed" =>
           \A p \in DefectiveRecords :
             \E k \in 1..Len(trace) :
               /\ trace[k].level = p[1]
               /\ trace[k].node = p[2]
               /\ trace[k].result \in {"filtered", "dropped"}

\* a run that wrote rows for well-formed records and then met a record
\* lacking a key
C21_Witness ==
    /\ importer = "json"
    /\ pc = "done"
    /\ outcome = "keyerror"
    /\ \E k \in 1..Len(trace) : trace[k].result = "inserted" /\ trace[k].level = 1
    /\ \E k \in 1..Len(trace) : trace[k].result = "inserted" /\ trace[k].level = 2
    /\ trace[Len(trace)].result = "keyerror"
    /\ dbRows = EmptyRows

\* elements with the segment tag: the children of the root, and all
DirectSegments(nodes) ==
    {j \in 1..Len(nodes) : nodes[j].tag = TAG[1] /\ nodes[j].depth = 1}

AllSegments(nodes) == {j \in 1..Len(nodes) : nodes[j].tag = TAG[1]}

\* C22: segment discovery of the XML importer.  When the root has a child
\* with the segment tag, a run that reaches its commit has processed exactly
\* the segment children of the root, each once; only when it has none, the
\* segment elements anywhere below the root; when there is none at all, the
\* run still commits and all counters are 0.
C22_SegmentDiscovery ==
    ( /\ importer = "xml"
      /\ pc = "done"
      /\ RootAccepted(doc)
      /\ outcome \notin {"setup_failed", "rolledback"} )
    => /\ outcome = "committed"
       /\ {trace[k].node : k \in EventsAt(1)} =
            IF DirectSegments(doc.nodes) # {}
            THEN DirectSegments(doc.nodes)
            ELSE AllSegments(doc.nodes)
       /\ counters.processed[1] = Cardinality({trace[k].node : k \in EventsAt(1)})
       /\ AllSegments(doc.nodes) = {} => counters = ZeroCounters /\ trace = <<>>

\* a committed run over a document without a segment child of the root, in
\* which a segment found below a wrapper and a segment nested in it were
\* both processed
C22_Witness ==
    /\ importer = "xml"
    /\ pc = "done"
    /\ outcome = "committed"
    /\ DirectSegments(doc.nodes) = {}
    /\ \E k, m \in EventsAt(1) :
         /\ IsDescendant(doc.nodes, trace[k].node, trace[m].node)
         /\ trace[m].result = "inserted"
    /\ counters.processed[1] = 2

=============================================================================
